---- MODULE Spec2Model ----
(***************************************************************************)
(* Request-defense pipeline of the task board server                       *)
(* (src/server/index.js, src/server/security/*.js) and its client dialog.  *)
(*                                                                         *)
(* Spec      : logins and task posts of one LAN client: the brute-force    *)
(*             table, the auth limiter, the user store, the sweep timer.   *)
(* SpecBrute : failing logins of one LAN client, two in flight at a time.  *)
(* SpecReg   : registrations and logins against an empty user store.       *)
(* SpecRate  : the general limiter on GET routes, for a remote and a       *)
(*             loopback client.                                            *)
(* SpecGuard : one request through validateAndSanitize, the body parser,   *)
(*             authenticateToken, requireRole and its route handler.       *)
(* SpecSocket: WebSocket handshakes, the connection handler and the hourly *)
(*             clear of the connection counters.                           *)
(* SpecUpload: file uploads through /api/upload and /api/tasks/:id/upload. *)
(* SpecValidate, SpecVerify, SpecSanitize: the file validators, the token  *)
(*             verifiers and the sanitizers, each applied to one input.    *)
(* SpecDialog: the report upload dialog of the task list (client).         *)
(*                                                                         *)
(* Time is in milliseconds, as Date.now().  One action is one run of the   *)
(* event loop: the synchronous middleware of a request between two awaits. *)
(***************************************************************************)
EXTENDS Integers, Sequences, FiniteSets, TLC

\* ---------------------------------------------------------------- bounds
MaxTicks == 3
MaxHits == 6
MaxArrivals == 102
MaxFields == 2
MaxNested == 2
MaxHandshakes == 12

\* ------------------------------------------------------ program constants
BRUTE_FORCE_WINDOW == 15 * 60 * 1000
MAX_ATTEMPTS == 5
SWEEP_INTERVAL == 30 * 60 * 1000
ApiWindowMs == 15 * 60 * 1000
ApiMax == 100
AuthWindowMs == 15 * 60 * 1000
AuthMax == 5

FixedRoles == {"USER", "ADMIN", "BOSS"}

\* ------------------------------------------------------------ input sets
RemoteIP == "203.0.113.7"
LoopbackIP == "127.0.0.1"
LanIP == "192.168.1.20"
IPs == {RemoteIP, LoopbackIP, LanIP}
\* ip === '127.0.0.1' || ip.startsWith('192.168.') ...
LocalIPs == {LoopbackIP, LanIP}
\* the clients of Spec: the office LAN, which the general limiter skips
AuthIPs == {LanIP}
LoginPath == "/api/auth/login"
RegisterPath == "/api/auth/register"
TasksPath == "/api/tasks"
\* GET /api/tasks mounts apiRateLimit a second time, GET /api/auth/me does not
TaskListPath == "GET /api/tasks"
MePath == "GET /api/auth/me"
ApiPaths == {TaskListPath, MePath}
BrutePaths == {LoginPath, RegisterPath}
KnownEmail == "a@x.io"
NewEmail == "b@x.io"
Emails == {KnownEmail, NewEmail}
\* the role field of a registration body; "undefined" is the absent field
BodyRoles == {"undefined", "admin", "manager"}
\* the request slots: Spec serves one request at a time (its awaits still interleave
\* with the clock and the sweep timer)
Slots == {1}
\* SpecBrute serves two requests at a time
AllSlots == {1, 2}
TickSteps == {1, BRUTE_FORCE_WINDOW}

VARIABLES
    now,                   \* Date.now()
    ticks,                 \* number of clock advances so far
    lastSweep,             \* time the sweep timer last fired
    bruteForceProtection,  \* Map key -> {attempts, lastAttempt}
    apiStore,              \* hits of securityConfig.apiRateLimit, per ip
    authStore,             \* hits of securityConfig.authRateLimit, per ip
    users,                 \* prisma.user, by email
    issued,                \* payloads of the tokens handed to clients
    req,                   \* the requests in flight, per slot
    last,                  \* the request answered last, with its response
    sinceSuccess,          \* per key: failures since the last success (-1: none yet, 2: 2+)
    windowStart,           \* per key: time of the failure that took the count from 0 to 1 (-1: none)
    arrivals,              \* per ip: requests received in the running 15-minute window
    g,                     \* the request walking the guard chain (SpecGuard)
    userSockets,           \* Map userId -> Set of socket ids
    connectionAttempts,    \* Map address -> connections seen since the last clear
    ws,                    \* socket bookkeeping: ids, clear timer, last handshake
    uploadsDir,            \* the files in server/uploads
    taskReports,           \* the reportFile entries written to tasks
    up,                    \* the upload request being served
    call,                  \* a function applied to an input (SpecValidate, SpecVerify, SpecSanitize)
    dlg                    \* the report upload dialog of the task list (SpecDialog)

vars == <<now, ticks, lastSweep, bruteForceProtection, apiStore, authStore,
          users, issued, req, last, sinceSuccess, windowStart, arrivals, g,
          userSockets, connectionAttempts, ws, uploadsDir, taskReports, up, call,
          dlg>>

sockVars == <<userSockets, connectionAttempts, ws>>

upVars == <<uploadsDir, taskReports, up>>

\* the state of the auth routes and the limiters
pipeVars == <<now, ticks, lastSweep, bruteForceProtection, apiStore, authStore,
              users, issued, req, last, sinceSuccess, windowStart>>

\* the state the auth routes leave alone
others == <<arrivals, g, sockVars, upVars, call, dlg>>

\* ------------------------------------------------------- brute-force table
NoRecord == [attempts |-> -1, lastAttempt |-> -1]
NoUser == [id |-> 0, role |-> "none"]
Key(ip, path) == <<ip, path>>
Keys == AuthIPs \X BrutePaths

Has(table, key) == table[key] # NoRecord

\* checkBruteForce, lines 421-423: a missing record is created
EnsureRecord(table, key, t) ==
    IF Has(table, key) THEN table
    ELSE [table EXCEPT ![key] = [attempts |-> 0, lastAttempt |-> t]]

\* the expiry test with twice the window
WindowExpired_TwoWindows(record, t) == t - record.lastAttempt > BRUTE_FORCE_WINDOW * 2

\* checkBruteForce, lines 428-430: the window has passed
WindowExpired(record, t) == t - record.lastAttempt > BRUTE_FORCE_WINDOW

\* the reset that also stamps a record it does not reset with the time of
\* the check
ResetIfExpired_Touch(table, key, t) ==
    IF WindowExpired(table[key], t)
    THEN [table EXCEPT ![key].attempts = 0]
    ELSE [table EXCEPT ![key].lastAttempt = t]

ResetIfExpired(table, key, t) ==
    IF WindowExpired(table[key], t)
    THEN [table EXCEPT ![key].attempts = 0]
    ELSE table

\* the threshold test with a strict comparison
Blocked_OffByOne(record) == record.attempts > MAX_ATTEMPTS

\* checkBruteForce, line 432
Blocked(record) == record.attempts >= MAX_ATTEMPTS

\* the failure branches of the handlers: if (record) { attempts++; lastAttempt = now }
RecordFailure(table, key, t) ==
    IF Has(table, key)
    THEN [table EXCEPT ![key] = [attempts |-> @.attempts + 1, lastAttempt |-> t]]
    ELSE table

\* the sweep timer's loop body
\* the sweep test with a single window
Stale_OneWindow(record, t) == t - record.lastAttempt > BRUTE_FORCE_WINDOW

Stale(record, t) == t - record.lastAttempt > BRUTE_FORCE_WINDOW * 2

SweepTable(table, t) ==
    [k \in Keys |-> IF Has(table, k) /\ Stale(table[k], t) THEN NoRecord ELSE table[k]]

\* ------------------------------------------------- express-rate-limit store
NoHits == [hits |-> 0, resetTime |-> 0]

\* store.increment(key): a fixed window per key, opened by its first hit
RateIncrement(store, ip, t, windowMs) ==
    IF t >= store[ip].resetTime
    THEN [store EXCEPT ![ip] = [hits |-> 1, resetTime |-> t + windowMs]]
    ELSE [store EXCEPT ![ip].hits = @ + 1]

\* store.decrement(key), run for skipSuccessfulRequests
RateDecrement(store, ip) ==
    IF store[ip].hits > 0 THEN [store EXCEPT ![ip].hits = @ - 1] ELSE store

\* apiRateLimit.skip
IsLocalIP(ip) == ip \in LocalIPs

OverLimit(store, ip, max) == store[ip].hits > max

\* skipSuccessfulRequests: a response below 400 gives its hit back
AuthFinish(store, ip, status) ==
    IF status < 400 THEN RateDecrement(store, ip) ELSE store

\* String.prototype.toUpperCase on the role strings of the model
ToUpperCase(s) ==
    CASE s = "admin" -> "ADMIN"
      [] s = "manager" -> "MANAGER"
      [] s = "user" -> "USER"
      [] OTHER -> s

\* const { role = 'USER' } = req.body
RoleOrDefault(bodyRole) == IF bodyRole = "undefined" THEN "USER" ELSE bodyRole

\* ------------------------------------------------------------- requests
Idle ==
    [pc |-> "idle", ip |-> LanIP, route |-> LoginPath, email |-> KnownEmail,
     pwOK |-> FALSE, role |-> "undefined", valid |-> TRUE, status |-> 0,
     by |-> "none", trace |-> <<>>, nth |-> 0, cleared |-> 0]

\* res.status(status).json(...): the request is over, its inputs are dropped
Respond(r, status, by) ==
    [Idle EXCEPT !.pc = "done", !.ip = r.ip, !.route = r.route, !.status = status,
                 !.by = by, !.trace = r.trace, !.nth = r.nth, !.cleared = r.cleared]

Ran(r, guard) == \E i \in 1 .. Len(r.trace) : r.trace[i] = guard

Pos(r, guard) == CHOOSE i \in 1 .. Len(r.trace) : r.trace[i] = guard

\* the requests of the model: those in flight and the one answered last
Requests == {req[s] : s \in DOMAIN req} \cup {last}

\* ------------------------------------------- strings, detector, sanitizer
\* A string is a sequence of characters; a parsed query or body is a sequence of
\* fields, in insertion order, each a string or a nested object of strings.
Str(chars) == [kind |-> "string", str |-> chars, sub |-> <<>>]
Obj(strings) == [kind |-> "object", str |-> <<>>, sub |-> strings]

Benign == <<"a">>
Keyword == <<"d", "r", "o", "p">>
Angle == <<"<">>
RawStrings == {Benign, Keyword, Angle}

SeqsUpTo(S, n) == UNION {[1 .. k -> S] : k \in 0 .. n}

Fields ==
    {Str(c) : c \in RawStrings}
        \cup {Obj(ss) : ss \in SeqsUpTo(RawStrings, MaxNested) \ {<<>>}}

Queries == SeqsUpTo(Fields, MaxFields)

\* express.json: {} without a JSON body, the parsed object otherwise
Bodies == {<<>>} \cup {<<Str(c)>> : c \in RawStrings}

HasSub(str, w) ==
    \E i \in 1 .. (Len(str) - Len(w) + 1) : SubSeq(str, i, i + Len(w) - 1) = w

\* the three regular expressions of detectSQLInjection, on lower-case input
SqlPatterns ==
    {<<"'">>, <<"-", "-">>, <<";">>, <<"|">>, <<"*">>,
     <<"u", "n", "i", "o", "n">>, <<"s", "e", "l", "e", "c", "t">>,
     <<"i", "n", "s", "e", "r", "t">>, <<"d", "e", "l", "e", "t", "e">>,
     <<"u", "p", "d", "a", "t", "e">>, <<"d", "r", "o", "p">>,
     <<"c", "r", "e", "a", "t", "e">>, <<"a", "l", "t", "e", "r">>,
     <<"e", "x", "e", "c">>,
     <<"s", "c", "r", "i", "p", "t">>, <<"o", "n", "l", "o", "a", "d">>,
     <<"o", "n", "e", "r", "r", "o", "r">>, <<"o", "n", "c", "l", "i", "c", "k">>}

DetectSQLInjection(input) == \E w \in SqlPatterns : HasSub(input, w)

\* escapeHtml of the xss filter
EscapeHtmlChar(c) ==
    CASE c = "<" -> <<"&", "l", "t", ";">>
      [] c = ">" -> <<"&", "g", "t", ";">>
      [] OTHER -> <<c>>

RECURSIVE EscapeHtml(_)
EscapeHtml(str) ==
    IF str = <<>> THEN <<>> ELSE EscapeHtmlChar(Head(str)) \o EscapeHtml(Tail(str))

\* xss(data, { whiteList: {}, stripIgnoreTag: true }): a tag runs from "<" to the
\* next ">" or to the end of the input and is dropped; a "<" inside a tag starts
\* the tag over; text outside tags is escaped
RECURSIVE ParseTag(_, _, _, _)
ParseTag(html, pos, lastPos, tagStart) ==
    IF pos > Len(html)
    THEN EscapeHtml(SubSeq(html, lastPos, Len(html)))
    ELSE IF tagStart = 0
    THEN ParseTag(html, pos + 1, lastPos, IF html[pos] = "<" THEN pos ELSE 0)
    ELSE IF html[pos] = "<"
    THEN EscapeHtml(SubSeq(html, lastPos, pos - 1)) \o ParseTag(html, pos + 1, pos, pos)
    ELSE IF html[pos] = ">" \/ pos = Len(html)
    THEN EscapeHtml(SubSeq(html, lastPos, tagStart - 1))
             \o ParseTag(html, pos + 1, pos + 1, 0)
    ELSE ParseTag(html, pos + 1, lastPos, tagStart)

Xss(str) == ParseTag(str, 1, 1, 0)

\* validator.escape
ValidatorEscapeChar(c) ==
    CASE c = "&" -> <<"&", "a", "m", "p", ";">>
      [] c = "<" -> <<"&", "l", "t", ";">>
      [] c = ">" -> <<"&", "g", "t", ";">>
      [] c = "'" -> <<"&", "#", "x", "2", "7", ";">>
      [] OTHER -> <<c>>

RECURSIVE ValidatorEscape(_)
ValidatorEscape(str) ==
    IF str = <<>> THEN <<>>
    ELSE ValidatorEscapeChar(Head(str)) \o ValidatorEscape(Tail(str))

SanitizeString(str) == ValidatorEscape(Xss(str))

SanitizeField(f) ==
    IF f.kind = "string"
    THEN Str(SanitizeString(f.str))
    ELSE Obj([i \in DOMAIN f.sub |-> SanitizeString(f.sub[i])])

\* securityConfig.sanitizeInput on an object
SanitizeInput(obj) == [i \in DOMAIN obj |-> SanitizeField(obj[i])]

\* checkForSQLInjection: a hit on a string of the walked object returns from the
\* walk; a hit inside a nested object returns from the nested walk only, and the
\* outer loop goes on with the next field
FieldHit(f) ==
    IF f.kind = "string" THEN DetectSQLInjection(f.str)
    ELSE \E i \in DOMAIN f.sub : DetectSQLInjection(f.sub[i])

WalkEnd(obj) ==
    IF \E i \in DOMAIN obj : obj[i].kind = "string" /\ FieldHit(obj[i])
    THEN CHOOSE i \in DOMAIN obj :
            /\ obj[i].kind = "string" /\ FieldHit(obj[i])
            /\ \A j \in 1 .. (i - 1) : ~(obj[j].kind = "string" /\ FieldHit(obj[j]))
    ELSE Len(obj)

\* the fields of obj for which checkForSQLInjection logs and answers 400
Hits(obj) == {i \in 1 .. WalkEnd(obj) : FieldHit(obj[i])}

\* ------------------------------------------------------------ guard chain
NoClaims == [id |-> 0, email |-> "", role |-> ""]

\* the bearer tokens of the model, by what jwt.verify makes of them
TokenRoles == FixedRoles \cup {"MANAGER", ""}
Claims == [id : {0, 1}, email : {"", KnownEmail}, role : TokenRoles]
TokenKinds == {"missing", "garbage", "badSignature", "notYetActive", "expired"}
Tokens == [kind : TokenKinds, claims : {NoClaims}] \cup [kind : {"active"}, claims : Claims]

\* the allow-lists requireRole is built with; the routes use ['ADMIN', 'BOSS']
AllowLists == {{}, {"USER"}, {"ADMIN", "BOSS"}}

NoRequest ==
    [pc |-> "idle", guarded |-> FALSE, allowed |-> {}, rawQuery |-> <<>>,
     query |-> <<>>, parsed |-> FALSE, rawBody |-> <<>>, body |-> <<>>,
     token |-> "none", user |-> NoClaims, checked |-> {}, nexts |-> <<>>,
     answers |-> <<>>, log |-> <<>>, handled |-> FALSE]

\* ---------------------------------------------------------------- sockets
MAX_USER_CONNECTIONS == 3
MAX_CONNECTION_ATTEMPTS == 10
CLEAR_INTERVAL == 60 * 60 * 1000

\* the subjects and the address of the socket clients
WsUsers == {1, 2}
WsIPs == {RemoteIP}

\* the tokens a socket client presents: tokens the server issued, and broken ones
WsTokens ==
    [kind : {"missing", "badSignature", "expired"}, claims : {NoClaims}]
        \cup [kind : {"active"},
              claims : [id : WsUsers, email : {KnownEmail}, role : {"USER"}]]

\* admitted: the times at which a connection was registered, per address
NoSockets ==
    [nextId |-> 1, clock |-> 0, lastClear |-> 0, handshakes |-> 0,
     token |-> "none", error |-> "none", admitted |-> [ip \in WsIPs |-> <<>>]]

\* req.file before multer has run, and of a request without a file part
NoFile == [present |-> FALSE, originalname |-> <<>>, mimetype |-> "", size |-> 0]

\* no stored file: the url of a response that names none
NoUrl == [token |-> 0, ext |-> <<>>]

NoCall == [fn |-> "none", file |-> NoFile, accepted |-> FALSE]

NoUpload ==
    [pc |-> "idle", n |-> 0, route |-> "", file |-> NoFile, token |-> "none",
     steps |-> <<>>, status |-> 0, url |-> NoUrl, name |-> <<>>]

\* the requests an address has sent in its running window of the general limiter
NoArrivals == [n |-> 0, since |-> 0]

CountArrival(count, ip, t) ==
    IF count[ip].n = 0 \/ t >= count[ip].since + ApiWindowMs
    THEN [count EXCEPT ![ip] = [n |-> 1, since |-> t]]
    ELSE [count EXCEPT ![ip].n = @ + 1]

\* the upload dialog before it is first opened: TaskFileUpload's initial state;
\* toast is the title of the toast shown last ("error", "uploadError", "uploading"
\* and "uploaded" stand for the Russian titles of the source)
NoDialog ==
    [open |-> FALSE, reportType |-> "text", selectedFile |-> NoFile, textReport |-> <<>>,
     uploading |-> FALSE, pc |-> "idle", sent |-> "none", orphan |-> FALSE,
     result |-> "none", toast |-> ""]

InitCommon ==
    /\ now = 0
    /\ ticks = 0
    /\ lastSweep = 0
    /\ bruteForceProtection = [k \in Keys |-> NoRecord]
    /\ apiStore = [ip \in IPs |-> NoHits]
    /\ authStore = [ip \in IPs |-> NoHits]
    /\ issued = {}
    /\ req = [s \in AllSlots |-> Idle]
    /\ last = Idle
    /\ sinceSuccess = [k \in Keys |-> -1]
    /\ windowStart = [k \in Keys |-> -1]
    /\ arrivals = [ip \in IPs |-> NoArrivals]
    /\ g = NoRequest
    /\ userSockets = [u \in WsUsers |-> {}]
    /\ connectionAttempts = [ip \in WsIPs |-> 0]
    /\ ws = NoSockets
    /\ uploadsDir = {}
    /\ taskReports = {}
    /\ up = NoUpload
    /\ call = NoCall
    /\ dlg = NoDialog

\* the database holds one user, registered earlier
Init ==
    /\ InitCommon
    /\ users = [e \in Emails |-> IF e = KnownEmail THEN [id |-> 1, role |-> "USER"]
                                 ELSE NoUser]

Tick ==
    /\ ticks < MaxTicks
    /\ \E d \in TickSteps : (d = 1 => now % BRUTE_FORCE_WINDOW = 0) /\ now' = now + d
    /\ ticks' = ticks + 1
    /\ UNCHANGED <<others, lastSweep, bruteForceProtection, apiStore, authStore, users,
                   issued, req, last, sinceSuccess, windowStart>>

\* setInterval(..., 30 * 60 * 1000): the sweep of the brute-force table
Sweep ==
    /\ now - lastSweep >= SWEEP_INTERVAL
    /\ bruteForceProtection' = SweepTable(bruteForceProtection, now)
    /\ lastSweep' = now
    /\ UNCHANGED <<others, now, ticks, apiStore, authStore, users, issued, req, last,
                   sinceSuccess, windowStart>>

\* What a client sends: the fields a route or a branch does not read keep their default
WellFormed(route, email, pwOK, role, valid) ==
    /\ route # LoginPath => pwOK = FALSE
    /\ route # RegisterPath => role = "undefined"
    /\ route = TasksPath => email = KnownEmail
    /\ ~valid => email = KnownEmail /\ pwOK = FALSE /\ role = "undefined"

\* the request of slot s is answered: the slot is free again
Answer(s, r, status, by) ==
    /\ req' = [req EXCEPT ![s] = Idle]
    /\ last' = Respond(r, status, by)

\* the request of slot s goes on to its next await
Continue(s, r, pc) ==
    /\ req' = [req EXCEPT ![s] = [r EXCEPT !.pc = pc]]
    /\ UNCHANGED last

\* securityConfig.apiRateLimit, wherever it is mounted: skip, count, decide
ApiRateLimit(s, r, pc) ==
    LET counted == IF IsLocalIP(r.ip) THEN apiStore
                   ELSE RateIncrement(apiStore, r.ip, now, ApiWindowMs)
    IN  /\ apiStore' = counted
        /\ IF ~IsLocalIP(r.ip) /\ OverLimit(counted, r.ip, ApiMax)
           THEN Answer(s, r, 429, "apiRateLimit")
           ELSE Continue(s, r, pc)

\* A request arrives: the app-level chain up to the body parser.
\* app.use(apiRateLimit) ... app.use(validateAndSanitize), app.use(express.json)
Arrive(s, ip, route, email, pwOK, role, valid) ==
    /\ req[s].pc = "idle"
    /\ \A s2 \in DOMAIN req : s2 < s => req[s2].pc # "idle"
    /\ authStore[ip].hits < MaxHits
    /\ WellFormed(route, email, pwOK, role, valid)
    /\ ApiRateLimit(s, [Idle EXCEPT !.ip = ip, !.route = route, !.email = email,
                                    !.pwOK = pwOK, !.role = role, !.valid = valid,
                                    !.trace = <<"apiRateLimit">>], "body")
    /\ UNCHANGED <<others, now, ticks, lastSweep, bruteForceProtection, authStore, users,
                   issued, sinceSuccess, windowStart>>

\* The route's middleware once the body is parsed, up to the handler's first await:
\* checkBruteForce, authRateLimit, validateLogin / validateRegistration, handler
RouteAuth(s) ==
    LET r == req[s]
        key == Key(r.ip, r.route)
        created == EnsureRecord(bruteForceProtection, key, now)
        table == ResetIfExpired(created, key, now)
        r1 == [r EXCEPT !.trace = Append(@, "checkBruteForce"),
                        !.cleared = IF WindowExpired(created[key], now)
                                    THEN created[key].attempts ELSE 0]
        r2 == [r1 EXCEPT !.trace = Append(@, "authRateLimit")]
        counted == RateIncrement(authStore, r.ip, now, AuthWindowMs)
    IN  /\ r.pc = "body"
        /\ r.route \in BrutePaths
        /\ bruteForceProtection' = table
        /\ IF Blocked(table[key])
           THEN /\ Answer(s, r1, 429, "checkBruteForce")
                /\ UNCHANGED authStore
           ELSE /\ authStore' = counted
                /\ IF OverLimit(counted, r.ip, AuthMax)
                   THEN Answer(s, r2, 429, "authRateLimit")
                   ELSE IF ~r.valid
                   THEN Answer(s, r2, 400, "validate")
                   ELSE Continue(s, r2, "lookup")
        /\ UNCHANGED <<others, now, ticks, lastSweep, apiStore, users, issued,
                       sinceSuccess, windowStart>>

\* a failed credential check of the handlers: increment, log, answer
Fail(s, status) ==
    LET r == req[s]
        key == Key(r.ip, r.route)
    IN  /\ bruteForceProtection' = RecordFailure(bruteForceProtection, key, now)
        /\ Answer(s, r, status, "handler")
        /\ sinceSuccess' = [sinceSuccess EXCEPT ![key] =
                               IF @ \in {0, 1} THEN @ + 1 ELSE @]
        /\ windowStart' = [windowStart EXCEPT ![key] =
                              IF bruteForceProtection[key].attempts = 0 THEN now ELSE @]
        /\ UNCHANGED <<authStore, issued>>

\* generateJWT({ id, userId, email, role }) and res.json({ token, user })
Succeed(s, user) ==
    LET r == req[s]
        key == Key(r.ip, r.route)
    IN  /\ issued' = issued \cup {[id |-> user.id, email |-> r.email, role |-> user.role]}
        /\ Answer(s, r, 200, "handler")
        /\ authStore' = AuthFinish(authStore, r.ip, 200)
        /\ sinceSuccess' = [sinceSuccess EXCEPT ![key] = 0]
        /\ UNCHANGED <<bruteForceProtection, windowStart>>

\* prisma.user.findUnique has answered
Lookup(s) ==
    LET r == req[s]
        found == users[r.email] # NoUser
    IN  /\ r.pc = "lookup"
        /\ IF r.route = LoginPath
           THEN IF ~found
                THEN Fail(s, 401)
                ELSE /\ Continue(s, r, "verify")
                     /\ UNCHANGED <<bruteForceProtection, authStore, issued,
                                    sinceSuccess, windowStart>>
           ELSE IF found
                THEN Fail(s, 400)
                ELSE /\ Continue(s, r, "create")
                     /\ UNCHANGED <<bruteForceProtection, authStore, issued,
                                    sinceSuccess, windowStart>>
        /\ UNCHANGED <<others, now, ticks, lastSweep, apiStore, users>>

\* login: cryptoUtils.verifyPassword has answered
Verify(s) ==
    LET r == req[s]
    IN  /\ r.pc = "verify"
        /\ IF r.pwOK THEN Succeed(s, users[r.email]) ELSE Fail(s, 401)
        /\ UNCHANGED <<others, now, ticks, lastSweep, apiStore, users>>

\* prisma.user.create({ data }): the persistence layer stores the row it is given
\* and numbers it
PrismaCreate(store, email, role) ==
    [store EXCEPT ![email] =
        [id |-> Cardinality({e \in Emails : store[e] # NoUser}) + 1, role |-> role]]

\* register: hashPassword and prisma.user.create have answered
Create(s) ==
    LET r == req[s]
        stored == PrismaCreate(users, r.email, ToUpperCase(RoleOrDefault(r.role)))
    IN  /\ r.pc = "create"
        /\ IF users[r.email] # NoUser
           THEN \* unique constraint: create throws, the catch answers 500
                /\ Answer(s, r, 500, "handler")
                /\ UNCHANGED <<users, issued, authStore, sinceSuccess, windowStart,
                               bruteForceProtection>>
           ELSE /\ users' = stored
                /\ Succeed(s, stored[r.email])
        /\ UNCHANGED <<others, now, ticks, lastSweep, apiStore>>

\* POST /api/tasks once the body is parsed: authRateLimit, then the handler's awaits
RouteTasks(s) ==
    LET r == req[s]
        r1 == [r EXCEPT !.trace = Append(@, "authRateLimit")]
        counted == RateIncrement(authStore, r.ip, now, AuthWindowMs)
    IN  /\ r.pc = "body"
        /\ r.route = TasksPath
        /\ authStore' = counted
        /\ IF OverLimit(counted, r.ip, AuthMax)
           THEN Answer(s, r1, 429, "authRateLimit")
           ELSE Continue(s, r1, "handler")
        /\ UNCHANGED <<others, now, ticks, lastSweep, bruteForceProtection, apiStore, users,
                       issued, sinceSuccess, windowStart>>

\* POST /api/tasks answers: 201 for a valid task, 400/401 otherwise
TaskDone(s) ==
    LET r == req[s]
        status == IF r.valid THEN 201 ELSE 400
    IN  /\ r.pc = "handler"
        /\ r.route = TasksPath
        /\ Answer(s, r, status, "handler")
        /\ authStore' = AuthFinish(authStore, r.ip, status)
        /\ UNCHANGED <<others, now, ticks, lastSweep, bruteForceProtection, apiStore, users,
                       issued, sinceSuccess, windowStart>>

\* Spec: logins and task posts of one client against a database with one user
Next ==
    \/ Tick
    \/ Sweep
    \/ \E s \in Slots, route \in {LoginPath, TasksPath}, email \in Emails,
          pwOK \in BOOLEAN, valid \in BOOLEAN :
            Arrive(s, LanIP, route, email, pwOK, "undefined", valid)
    \/ \E s \in Slots : RouteAuth(s)
    \/ \E s \in Slots : Lookup(s)
    \/ \E s \in Slots : Verify(s)
    \/ \E s \in Slots : RouteTasks(s)
    \/ \E s \in Slots : TaskDone(s)

Spec == Init /\ [][Next]_vars

\* SpecBrute: failing logins of one client, two of them in flight at a time,
\* with the clock and the sweep timer
ArriveFailing ==
    \E s \in AllSlots, email \in Emails :
        Arrive(s, LanIP, LoginPath, email, FALSE, "undefined", TRUE)

NextBrute ==
    \/ Tick
    \/ Sweep
    \/ ArriveFailing
    \/ \E s \in AllSlots : RouteAuth(s)
    \/ \E s \in AllSlots : Lookup(s)
    \/ \E s \in AllSlots : Verify(s)

SpecBrute == Init /\ [][NextBrute]_vars

\* SpecReg: registrations and logins of one client against an empty database
InitReg ==
    /\ InitCommon
    /\ users = [e \in Emails |-> NoUser]

ArriveRegister ==
    \E s \in Slots, email \in Emails, role \in BodyRoles, valid \in BOOLEAN :
        Arrive(s, LanIP, RegisterPath, email, FALSE, role, valid)

ArriveLogin ==
    \E s \in Slots, email \in Emails, pwOK \in BOOLEAN :
        Arrive(s, LanIP, LoginPath, email, pwOK, "undefined", TRUE)

NextReg ==
    \/ ArriveRegister
    \/ ArriveLogin
    \/ \E s \in Slots : RouteAuth(s)
    \/ \E s \in Slots : Lookup(s)
    \/ \E s \in Slots : Verify(s)
    \/ \E s \in Slots : Create(s)

SpecReg == InitReg /\ [][NextReg]_vars

\* SpecRate: two clients, one of them on the loopback address, read the task
\* list and their own profile
ArriveApi(s, ip, route) ==
    LET counted == IF IsLocalIP(ip) THEN arrivals ELSE CountArrival(arrivals, ip, now)
    IN  /\ req[s].pc = "idle"
        /\ arrivals[ip].n < MaxArrivals
        /\ arrivals' = counted
        /\ ApiRateLimit(s, [Idle EXCEPT !.ip = ip, !.route = route,
                                        !.trace = <<"apiRateLimit">>,
                                        !.nth = counted[ip].n], "body")
        /\ UNCHANGED <<g, sockVars, upVars, call, dlg, now, ticks, lastSweep,
                       bruteForceProtection, authStore,
                       users, issued, sinceSuccess, windowStart>>

\* the route's own middleware and handler: GET /api/tasks runs apiRateLimit again
RouteApi(s) ==
    LET r == req[s]
        r1 == [r EXCEPT !.trace = Append(@, "apiRateLimit")]
    IN  /\ r.pc = "body"
        /\ r.route \in ApiPaths
        /\ IF r.route = TaskListPath
           THEN ApiRateLimit(s, r1, "handler")
           ELSE Continue(s, r, "handler") /\ UNCHANGED apiStore
        /\ UNCHANGED <<others, now, ticks, lastSweep, bruteForceProtection, authStore,
                       users, issued, sinceSuccess, windowStart>>

\* authenticateToken and the handler answer
ApiDone(s) ==
    LET r == req[s]
    IN  /\ r.pc = "handler"
        /\ r.route \in ApiPaths
        /\ Answer(s, r, 200, "handler")
        /\ UNCHANGED <<others, now, ticks, lastSweep, bruteForceProtection, apiStore,
                       authStore, users, issued, sinceSuccess, windowStart>>

NextRate ==
    \/ Tick
    \/ \E s \in Slots, ip \in {RemoteIP, LoopbackIP}, route \in ApiPaths :
            ArriveApi(s, ip, route)
    \/ \E s \in Slots : RouteApi(s)
    \/ \E s \in Slots : ApiDone(s)

SpecRate == Init /\ [][NextRate]_vars

\* ------------------------------------------------- SpecGuard: guard chain
LogEntry(type, userRole, requiredRoles) ==
    [type |-> type, userRole |-> userRole, requiredRoles |-> requiredRoles]

\* res.status(status).json(...) called by a guard
Reply(by, status) == [by |-> by, status |-> status]

\* what the client receives: the first response written; a later write throws
\* ERR_HTTP_HEADERS_SENT
Delivered(r) == IF r.answers = <<>> THEN 0 ELSE r.answers[1].status

CalledNext(r, guard) == \E i \in 1 .. Len(r.nexts) : r.nexts[i] = guard

GuardVarsUnchanged == UNCHANGED <<pipeVars, dlg, arrivals, sockVars, upVars, call>>

\* a request arrives with its parsed query string; the route it targets mounts
\* authenticateToken and, when guarded, requireRole(allowed)
GuardArrive ==
    /\ g.pc = "idle"
    /\ \E q \in Queries, guarded \in BOOLEAN, allowed \in AllowLists :
          /\ ~guarded => allowed = {}
          /\ g' = [NoRequest EXCEPT !.pc = "validateAndSanitize", !.rawQuery = q,
                                    !.query = q, !.guarded = guarded,
                                    !.allowed = allowed]
    /\ GuardVarsUnchanged

\* securityMiddleware.validateAndSanitize, mounted before the body parser
ValidateAndSanitize ==
    LET bodyHits == IF g.parsed THEN Cardinality(Hits(g.body)) ELSE 0
        hits == bodyHits + Cardinality(Hits(g.query))
        entry == LogEntry("SQL_INJECTION_ATTEMPT", "", {})
        walked == {"query", "params"} \cup (IF g.parsed THEN {"body"} ELSE {})
    IN  /\ g.pc = "validateAndSanitize"
        /\ IF hits >= 2
           THEN \* the second res.json throws; so does the one of the catch block,
                \* and the one of the error handler Express then calls
                g' = [g EXCEPT !.pc = "done", !.checked = walked,
                               !.log = <<entry, entry>>,
                               !.answers = <<Reply("validateAndSanitize", 400),
                                             Reply("validateAndSanitize", 400),
                                             Reply("validateAndSanitize", 500),
                                             Reply("errorHandler", 500)>>]
           ELSE g' = [g EXCEPT !.pc = "appChain", !.checked = walked,
                               !.log = IF hits = 1 THEN <<entry>> ELSE <<>>,
                               !.answers = IF hits = 1
                                           THEN <<Reply("validateAndSanitize", 400)>>
                                           ELSE <<>>,
                               !.body = IF g.parsed THEN SanitizeInput(@) ELSE @,
                               !.query = SanitizeInput(@),
                               !.nexts = Append(@, "validateAndSanitize")]
        /\ GuardVarsUnchanged

\* cors, express.json, express.urlencoded and the middleware that sets the
\* security headers: res.setHeader throws once a response has been written, and
\* Express hands the request to the error handler
AppChain ==
    /\ g.pc = "appChain"
    /\ IF g.answers # <<>>
       THEN g' = [g EXCEPT !.pc = "done",
                           !.answers = Append(@, Reply("errorHandler", 500))]
       ELSE \E b \in Bodies :
               g' = [g EXCEPT !.pc = "authenticateToken", !.parsed = TRUE,
                              !.rawBody = b, !.body = b,
                              !.nexts = Append(@, "express.json")]
    /\ GuardVarsUnchanged

\* the required-claims test without its email half
HasRequiredClaims_IdOnly(claims) == claims.id # 0

\* if (!user.id || !user.email)
HasRequiredClaims(claims) == claims.id # 0 /\ claims.email # ""

\* the error jwt.verify reports: the signature is checked before nbf and exp
VerifyError(token) ==
    CASE token.kind = "badSignature" -> "JsonWebTokenError"
      [] token.kind = "notYetActive" -> "NotBeforeError"
      [] token.kind = "expired" -> "TokenExpiredError"
      [] OTHER -> "none"

\* the status authenticateToken answers with; 0: it calls next()
AuthStatus(token) ==
    IF token.kind = "missing" THEN 401
    ELSE IF token.kind = "garbage" THEN 401
    ELSE IF VerifyError(token) = "TokenExpiredError" THEN 401
    ELSE IF VerifyError(token) = "JsonWebTokenError" THEN 401
    ELSE IF VerifyError(token) # "none" THEN 403
    ELSE IF ~HasRequiredClaims(token.claims) THEN 401
    ELSE 0

\* the suspicious-activity entry authenticateToken writes with it
AuthLog(token) ==
    IF token.kind = "garbage" THEN "INVALID_TOKEN_FORMAT"
    ELSE IF VerifyError(token) = "JsonWebTokenError" THEN "INVALID_TOKEN"
    ELSE IF token.kind = "active" /\ ~HasRequiredClaims(token.claims)
    THEN "MALFORMED_TOKEN_PAYLOAD"
    ELSE "none"

\* securityMiddleware.authenticateToken
AuthenticateToken(token) ==
    LET status == AuthStatus(token)
    IN  /\ g.pc = "authenticateToken"
        /\ IF status = 0
           THEN g' = [g EXCEPT !.pc = IF g.guarded THEN "requireRole" ELSE "handler",
                               !.token = token.kind, !.user = token.claims,
                               !.nexts = Append(@, "authenticateToken")]
           ELSE g' = [g EXCEPT !.pc = "done", !.token = token.kind,
                               !.answers = Append(@, Reply("authenticateToken", status)),
                               !.log = IF AuthLog(token) = "none" THEN @
                                       ELSE Append(@, LogEntry(AuthLog(token), "", {}))]
        /\ GuardVarsUnchanged

\* the role test reading an empty allow-list as "no restriction"
RoleAllowed_EmptyMeansAny(role, allowedRoles) ==
    role # "" /\ (allowedRoles = {} \/ role \in allowedRoles)

\* !(!req.user.role || !allowedRoles.includes(req.user.role))
RoleAllowed(role, allowedRoles) == role # "" /\ role \in allowedRoles

\* the middleware requireRole(allowedRoles) returns
RequireRole ==
    /\ g.pc = "requireRole"
    /\ IF g.user = NoClaims
       THEN g' = [g EXCEPT !.pc = "done",
                           !.answers = Append(@, Reply("requireRole", 401))]
       ELSE IF ~RoleAllowed(g.user.role, g.allowed)
       THEN g' = [g EXCEPT !.pc = "done",
                           !.log = Append(@, LogEntry("UNAUTHORIZED_ROLE_ACCESS",
                                                      g.user.role, g.allowed)),
                           !.answers = Append(@, Reply("requireRole", 403))]
       ELSE g' = [g EXCEPT !.pc = "handler", !.nexts = Append(@, "requireRole")]
    /\ GuardVarsUnchanged

\* the route handler reads req.query and req.body and answers
Handler ==
    /\ g.pc = "handler"
    /\ g' = [g EXCEPT !.pc = "done", !.handled = TRUE,
                      !.answers = Append(@, Reply("handler", 200))]
    /\ GuardVarsUnchanged

\* the connection closes: the request and its response are dropped
GuardFinish ==
    /\ g.pc = "done"
    /\ g' = NoRequest
    /\ GuardVarsUnchanged

NextGuard ==
    \/ GuardArrive
    \/ ValidateAndSanitize
    \/ AppChain
    \/ \E token \in Tokens : AuthenticateToken(token)
    \/ RequireRole
    \/ Handler
    \/ GuardFinish

SpecGuard == Init /\ [][NextGuard]_vars

\* ------------------------------------------------------------------ claims
LoginKey == Key(LanIP, LoginPath)

\* slot s runs the route middleware of a brute-force-protected route in this step
ChecksBruteForce(s) ==
    req[s].pc = "body" /\ req[s].route \in BrutePaths /\ req'[s] # req[s]

\* C1: a request that reaches checkBruteForce while its key holds 5 (or more)
\* recorded failures, the last one less than 15 minutes old, is answered 429 by
\* checkBruteForce and goes no further: no user lookup, no password compare.
C1_BlockedAfterMaxFailures ==
    [][\A s \in DOMAIN req :
         LET key == Key(req[s].ip, req[s].route)
             record == bruteForceProtection[key]
         IN  (/\ ChecksBruteForce(s)
              /\ Has(bruteForceProtection, key)
              /\ record.attempts >= MAX_ATTEMPTS
              /\ now - record.lastAttempt < BRUTE_FORCE_WINDOW)
             => (/\ req'[s].pc = "idle"
                 /\ last'.status = 429
                 /\ last'.by = "checkBruteForce"
                 /\ bruteForceProtection' = bruteForceProtection
                 /\ users' = users /\ issued' = issued)]_vars

\* C1 witness: a login was answered 429 by checkBruteForce with 5 failures on
\* record, the last of them some time ago but inside the window.
C1_Witness ==
    /\ last.pc = "done" /\ last.route = LoginPath
    /\ last.status = 429 /\ last.by = "checkBruteForce"
    /\ bruteForceProtection[LoginKey].attempts = MAX_ATTEMPTS
    /\ now - bruteForceProtection[LoginKey].lastAttempt > 0
    /\ now - bruteForceProtection[LoginKey].lastAttempt < BRUTE_FORCE_WINDOW

\* the request answered last is a failed credential check of key k, and nothing
\* has run since
JustFailed(k) ==
    /\ last.pc = "done" /\ last.by = "handler" /\ last.status >= 400
    /\ Key(last.ip, last.route) = k
    /\ \A s \in DOMAIN req : req[s].pc = "idle"

\* C2: a success clears the key's counter: right after the first failure that
\* follows a success, the key's recorded count is 1.
C2_SuccessClearsCounter ==
    \A k \in Keys :
        (sinceSuccess[k] = 1 /\ JustFailed(k) /\ Has(bruteForceProtection, k))
            => bruteForceProtection[k].attempts = 1

\* C3: on a brute-force-protected route both limiters have decided before
\* checkBruteForce runs, and checkBruteForce never runs for a request a limiter rejects.
C3_RateLimitBeforeBruteForce ==
    \A r \in Requests :
        (r.route \in BrutePaths /\ Ran(r, "checkBruteForce"))
            => /\ Ran(r, "apiRateLimit")
               /\ Pos(r, "apiRateLimit") < Pos(r, "checkBruteForce")
               /\ Ran(r, "authRateLimit")
               /\ Pos(r, "authRateLimit") < Pos(r, "checkBruteForce")
               /\ r.by \notin {"apiRateLimit", "authRateLimit"}

\* C10: the auth limiter keeps a hit only for a failed login/register: a login
\* that succeeds gives its hit back, and so does every request to another route.
C10_OnlyFailedAuthCounts ==
    [][\A s \in DOMAIN req :
         LET r == req[s]
             answered == r.pc \in {"verify", "handler"} /\ req'[s].pc = "idle"
         IN  (answered /\ (r.route = TasksPath \/ last'.status < 400))
             => authStore'[r.ip].hits = authStore[r.ip].hits - 1]_vars

Detected(r) == \E i \in 1 .. Len(r.log) : r.log[i].type = "SQL_INJECTION_ATTEMPT"

\* C4: once validateAndSanitize has found an injection signature, the request is
\* answered 400 and goes no further: validateAndSanitize does not call next, no
\* later guard and no route handler runs.
C4_DetectionEndsRequest ==
    Detected(g) => /\ Delivered(g) = 400
                   /\ g.nexts = <<>>
                   /\ g.pc = "done"
                   /\ ~g.handled

\* C5: a request that reaches its route handler has had pattern detection applied
\* to the raw strings of its body and query, and the handler reads the sanitized
\* body and query.
C5_HandlerReadsSanitized ==
    g.handled => /\ g.query = SanitizeInput(g.rawQuery)
                 /\ g.body = SanitizeInput(g.rawBody)
                 /\ g.rawQuery # <<>> => "query" \in g.checked
                 /\ g.rawBody # <<>> => "body" \in g.checked

AuthRan(r) == r.token # "none"

\* C6, as claimed: authenticateToken calls next only for an active token with
\* non-empty id and email; for every other input the answer is 401 and the route
\* handler never runs.
C6_EveryFailure401 ==
    /\ CalledNext(g, "authenticateToken")
          => g.token = "active" /\ g.user.id # 0 /\ g.user.email # ""
    /\ (AuthRan(g) /\ ~CalledNext(g, "authenticateToken"))
          => g.pc = "done" /\ ~g.handled /\ g.user = NoClaims /\ Delivered(g) = 401

\* C6, amended: authenticateToken calls next only for an active token with
\* non-empty id and email; for every other input the route handler never runs
\* and the answer is 401, or 403 when verification fails with an error that is
\* neither expiry nor an invalid token (a token not yet active).
C6_FailsClosed ==
    /\ CalledNext(g, "authenticateToken")
          => g.token = "active" /\ g.user.id # 0 /\ g.user.email # ""
    /\ (AuthRan(g) /\ ~CalledNext(g, "authenticateToken"))
          => /\ g.pc = "done" /\ ~g.handled /\ g.user = NoClaims
             /\ Delivered(g) = IF g.token = "notYetActive" THEN 403 ELSE 401

\* C6 witness: a correctly signed token that is not yet active was answered 403.
C6_Witness ==
    g.pc = "done" /\ g.token = "notYetActive" /\ Delivered(g) = 403 /\ ~g.handled

C8_TokensCarryFixedRole ==
    \A t \in issued : t.id # 0 /\ t.role \in FixedRoles

\* C9: the general limiter admits the first 100 requests an address outside the
\* exempt ranges sends in one 15-minute window, whatever routes they target, and
\* rejects the 101st with 429; requests from 127.0.0.1 are never counted.
C9_First100Admitted ==
    /\ \A r \in Requests :
          (r.pc # "idle" /\ ~IsLocalIP(r.ip))
              => /\ r.nth <= ApiMax => r.by # "apiRateLimit"
                 /\ r.nth = ApiMax + 1
                      => r.pc = "done" /\ r.by = "apiRateLimit" /\ r.status = 429
    /\ apiStore[LoopbackIP].hits = 0
    /\ \A r \in Requests : r.ip = LoopbackIP => r.by # "apiRateLimit"

\* ================================================================ sockets
\* SpecSocket: WebSocket handshakes of one address, the connection handler and
\* the hourly clear of connectionAttempts.
MaxSocketTicks == 3

SocketTickStep == CLEAR_INTERVAL \div 2

\* cryptoUtils.verifyJWT: the payload of a token that verifies, else it throws
VerifyJWTThrows(token) == token.kind # "active"

\* decoded.isValid, read from what verifyJWT returned: the payload itself
IsValidField(decoded) == "isValid" \in DOMAIN decoded /\ decoded.isValid

\* mutant: the payload of a verified token is taken as valid and four sockets
\* are let through
HandshakeError_CapOffByOne(token, sockets) ==
    IF token.kind = "missing" THEN "noToken"
    ELSE IF VerifyJWTThrows(token) THEN "authError"
    ELSE IF Cardinality(sockets[token.claims.id]) > MAX_USER_CONNECTIONS THEN "limit"
    ELSE "none"

\* mutant: the payload of a verified token is taken as valid, without a cap
HandshakeError_PayloadTrusted(token, sockets) ==
    IF token.kind = "missing" THEN "noToken"
    ELSE IF VerifyJWTThrows(token) THEN "authError"
    ELSE "none"

\* io.use: the error the handshake middleware passes to next(), "none" for next()
HandshakeError(token, sockets) ==
    IF token.kind = "missing" THEN "noToken"
    ELSE IF VerifyJWTThrows(token) THEN "authError"
    ELSE LET decoded == token.claims IN
         IF ~IsValidField(decoded) THEN "invalidToken"
         ELSE IF "payload" \notin DOMAIN decoded THEN "authError"
         ELSE IF Cardinality(sockets[decoded.payload.userId]) >= MAX_USER_CONNECTIONS
              THEN "limit"
         ELSE "none"

\* the handshake of a new socket and, when the middleware lets it through, the
\* 'connection' handler: both run in one turn of the event loop
Connect ==
    /\ ws.handshakes < MaxHandshakes
    /\ \E ip \in WsIPs, token \in WsTokens :
        LET err == HandshakeError(token, userSockets)
            attempts == connectionAttempts[ip]
            seen == [ws EXCEPT !.handshakes = @ + 1, !.token = token.kind]
        IN  IF err # "none"
            THEN /\ ws' = [seen EXCEPT !.error = err]
                 /\ UNCHANGED <<userSockets, connectionAttempts>>
            ELSE IF attempts > MAX_CONNECTION_ATTEMPTS
            THEN /\ ws' = [seen EXCEPT !.error = "disconnected"]
                 /\ UNCHANGED <<userSockets, connectionAttempts>>
            ELSE /\ connectionAttempts' = [connectionAttempts EXCEPT ![ip] = attempts + 1]
                 /\ userSockets' = [userSockets EXCEPT ![token.claims.id] = @ \cup {ws.nextId}]
                 /\ ws' = [seen EXCEPT !.error = "none", !.nextId = @ + 1,
                                       !.admitted[ip] = Append(@, ws.clock)]
    /\ UNCHANGED <<pipeVars, dlg, arrivals, g, upVars, call>>

\* time passes, never past a due run of the clear timer
SocketTick ==
    /\ ws.clock < MaxSocketTicks * SocketTickStep
    /\ ws.clock + SocketTickStep <= ws.lastClear + CLEAR_INTERVAL
    /\ ws' = [ws EXCEPT !.clock = @ + SocketTickStep]
    /\ UNCHANGED <<pipeVars, dlg, arrivals, g, userSockets, connectionAttempts, upVars, call>>

\* setInterval(() => connectionAttempts.clear(), 60 * 60 * 1000)
ClearAttempts ==
    /\ ws.clock = ws.lastClear + CLEAR_INTERVAL
    /\ connectionAttempts' = [ip \in WsIPs |-> 0]
    /\ ws' = [ws EXCEPT !.lastClear = ws.clock]
    /\ UNCHANGED <<pipeVars, dlg, arrivals, g, userSockets, upVars, call>>

NextSocket == Connect \/ SocketTick \/ ClearAttempts

SpecSocket == Init /\ [][NextSocket]_vars

AdmittedInHour(ip, i) ==
    {j \in i .. Len(ws.admitted[ip]) :
        ws.admitted[ip][j] - ws.admitted[ip][i] < CLEAR_INTERVAL}

Uppers == <<"A", "B", "C", "D", "E", "F", "G", "H", "I", "J", "K", "L", "M", "N", "O", "P", "Q", "R", "S", "T", "U", "V", "W", "X", "Y", "Z">>

Lowers == <<"a", "b", "c", "d", "e", "f", "g", "h", "i", "j", "k", "l", "m", "n", "o", "p", "q", "r", "s", "t", "u", "v", "w", "x", "y", "z">>

Digits == {"0", "1", "2", "3", "4", "5", "6", "7", "8", "9"}

Range(f) == {f[i] : i \in DOMAIN f}

\* String.prototype.toLowerCase, a character at a time
ToLowerChar(c) ==
    IF \E i \in DOMAIN Uppers : Uppers[i] = c
    THEN Lowers[CHOOSE i \in DOMAIN Uppers : Uppers[i] = c]
    ELSE c

ToLowerCase(name) == [i \in 1 .. Len(name) |-> ToLowerChar(name[i])]

\* name.lastIndexOf(c), counted from 1; 0 when c does not occur (-1 in the code)
LastIndexOf(name, c) ==
    IF \E i \in 1 .. Len(name) : name[i] = c
    THEN CHOOSE i \in 1 .. Len(name) :
            name[i] = c /\ \A j \in (i + 1) .. Len(name) : name[j] # c
    ELSE 0

\* originalname.toLowerCase().substring(originalname.lastIndexOf('.')): a
\* negative start counts as the start of the string
FileExtension(name) ==
    LET i == LastIndexOf(name, ".")
    IN  SubSeq(ToLowerCase(name), IF i = 0 THEN 1 ELSE i, Len(name))

\* path.extname(originalname): empty without a dot and for a name that only
\* starts with one
Extname(name) ==
    LET i == LastIndexOf(name, ".")
    IN  IF i <= 1 THEN <<>> ELSE SubSeq(name, i, Len(name))

\* /^[a-zA-Z0-9._\-\s()]+$/
SafeNameChar(c) ==
    c \in Range(Uppers) \cup Range(Lowers) \cup Digits \cup {".", "_", "-", " ", "(", ")"}

SafeName(name) == Len(name) > 0 /\ \A i \in 1 .. Len(name) : SafeNameChar(name[i])

\* allowedExtensions of storage.filename, fileFilter and validators.file.upload
AllowedExtensions == {
    <<".", "j", "p", "g">>, <<".", "j", "p", "e", "g">>, <<".", "p", "n", "g">>, <<".", "g", "i", "f">>,
    <<".", "b", "m", "p">>, <<".", "w", "e", "b", "p">>, <<".", "s", "v", "g">>, <<".", "t", "i", "f", "f">>,
    <<".", "i", "c", "o">>, <<".", "p", "d", "f">>, <<".", "d", "o", "c">>, <<".", "d", "o", "c", "x">>,
    <<".", "t", "x", "t">>, <<".", "r", "t", "f">>, <<".", "o", "d", "t">>, <<".", "x", "l", "s">>,
    <<".", "x", "l", "s", "x">>, <<".", "o", "d", "s">>, <<".", "c", "s", "v">>, <<".", "p", "p", "t">>,
    <<".", "p", "p", "t", "x">>, <<".", "o", "d", "p">>, <<".", "z", "i", "p">>, <<".", "r", "a", "r">>,
    <<".", "7", "z">>, <<".", "t", "a", "r">>, <<".", "g", "z">>}

\* allowedMimeTypes of fileFilter and validators.file.upload
AllowedMimeTypes == {
    "image/jpeg", "image/jpg",
    "image/png", "image/gif",
    "image/bmp", "image/webp",
    "image/svg+xml", "image/tiff",
    "image/x-icon", "application/pdf",
    "application/msword", "application/vnd.openxmlformats-officedocument.wordprocessingml.document",
    "text/plain", "text/rtf",
    "application/vnd.oasis.opendocument.text", "application/vnd.ms-excel",
    "application/vnd.openxmlformats-officedocument.spreadsheetml.sheet", "application/vnd.oasis.opendocument.spreadsheet",
    "text/csv", "application/vnd.ms-powerpoint",
    "application/vnd.openxmlformats-officedocument.presentationml.presentation", "application/vnd.oasis.opendocument.presentation",
    "application/zip", "application/x-rar-compressed",
    "application/x-7z-compressed", "application/x-tar",
    "application/gzip"}

\* allowedMimeTypes of validateFileUpload
MiddlewareMimeTypes == {
    "text/plain", "application/pdf",
    "application/msword", "application/vnd.openxmlformats-officedocument.wordprocessingml.document",
    "image/jpeg", "image/png",
    "image/gif"}

\* the deny-list the specification fixes
DangerousExtensions == {
    <<".", "e", "x", "e">>, <<".", "b", "a", "t">>, <<".", "c", "m", "d">>, <<".", "s", "c", "r">>,
    <<".", "p", "i", "f">>, <<".", "c", "o", "m">>, <<".", "v", "b", "s">>, <<".", "j", "a", "r">>,
    <<".", "p", "h", "p">>, <<".", "a", "s", "p">>, <<".", "j", "s", "p">>, <<".", "j", "s">>}

MaxFileSize == 10 * 1024 * 1024

MaxNameLength == 255

\* ------------------------------------------------------------ upload routes
\* SpecUpload: file uploads through POST /api/upload and
\* POST /api/tasks/:id/upload, one request at a time.
MaxUploads == 2

UploadPath == "POST /api/upload"
TaskUploadPath == "POST /api/tasks/:id/upload"

File(name, mime, size) ==
    [present |-> TRUE, originalname |-> name, mimetype |-> mime, size |-> size]

\* the names sent to the upload routes: r.pdf, n.md, x.php, r, a$.pdf and the
\* name multer reads, as latin1, from the UTF-8 bytes D0 BE of a Cyrillic letter
UploadNames ==
    {<<"r", ".", "p", "d", "f">>, <<"n", ".", "m", "d">>, <<"x", ".", "p", "h", "p">>,
     <<"r">>, <<"a", "$", ".", "p", "d", "f">>,
     <<"U+00D0", "U+00BE", ".", "p", "d", "f">>}

UploadMimes == {"application/pdf", "text/plain", "application/x-msdownload"}

UploadSizes == {1024, MaxFileSize + 1}

UploadFiles ==
    {NoFile} \cup {File(n, t, s) : n \in UploadNames, t \in UploadMimes, s \in UploadSizes}

\* the bearer tokens of upload requests
UploadTokens ==
    {[kind |-> "missing", claims |-> NoClaims],
     [kind |-> "active", claims |-> [id |-> 1, email |-> KnownEmail, role |-> "USER"]]}

\* the functions the object validators.file has
ValidatorsFile == {"upload"}

\* Buffer.from(name, 'latin1').toString('utf8'): two latin1 characters that are
\* the bytes of one UTF-8 sequence become its character, a stray lead byte
\* becomes U+FFFD
RECURSIVE Latin1ToUtf8(_)
Latin1ToUtf8(name) ==
    IF name = <<>> THEN <<>>
    ELSE IF Head(name) = "U+00D0"
    THEN IF Len(name) >= 2 /\ name[2] = "U+00BE"
         THEN <<"U+043E">> \o Latin1ToUtf8(SubSeq(name, 3, Len(name)))
         ELSE <<"U+FFFD">> \o Latin1ToUtf8(Tail(name))
    ELSE <<Head(name)>> \o Latin1ToUtf8(Tail(name))

\* originalFileName of the task upload handler
DecodedName(name) ==
    IF \E i \in 1 .. Len(name) : name[i] \in {"U+00D0", "U+00D1", "U+00C3"}
    THEN Latin1ToUtf8(name)
    ELSE name

\* securityMiddleware.validateFileUpload: the status it answers, 0 for next()
ValidateFileUpload(file) ==
    IF ~file.present THEN 0
    ELSE IF file.size > MaxFileSize THEN 400
    ELSE IF file.mimetype \notin MiddlewareMimeTypes THEN 400
    ELSE IF ~SafeName(file.originalname) THEN 400
    ELSE 0

\* fileFilter: TRUE when the file is passed on to the storage
FileFilter(file) ==
    \/ file.mimetype \in AllowedMimeTypes
    \/ ToLowerCase(Extname(file.originalname)) \in AllowedExtensions

\* storage.filename: TRUE when it names the file, FALSE when it reports an error
StorageAccepts(file) == ToLowerCase(Extname(file.originalname)) \in AllowedExtensions

\* what upload.single('file') leaves: the outcome, the steps taken, the file on disk
Multer(file, n) ==
    IF ~file.present THEN [outcome |-> "nofile", steps |-> <<>>, stored |-> {}]
    ELSE IF ~FileFilter(file)
    THEN [outcome |-> "error", steps |-> <<"fileFilter:reject">>, stored |-> {}]
    ELSE IF ~StorageAccepts(file)
    THEN [outcome |-> "error", steps |-> <<"fileFilter:accept", "filename:reject">>,
          stored |-> {}]
    ELSE IF file.size > MaxFileSize
    THEN [outcome |-> "error",
          steps |-> <<"fileFilter:accept", "filename:accept", "write", "remove">>,
          stored |-> {}]
    ELSE [outcome |-> "stored",
          steps |-> <<"fileFilter:accept", "filename:accept", "write">>,
          stored |-> {[token |-> n, ext |-> ToLowerCase(Extname(file.originalname))]}]

\* the request record once the response is sent
Uploaded(n, route, file, token, steps, status, url, name) ==
    [pc |-> "done", n |-> n, route |-> route, file |-> file, token |-> token.kind,
     steps |-> steps, status |-> status, url |-> url, name |-> name]

\* POST /api/upload: authenticateToken, validateFileUpload, upload.single, handler
UploadFile ==
    /\ up.n < MaxUploads
    /\ \E file \in UploadFiles, token \in UploadTokens :
        LET n == up.n + 1
            auth == AuthStatus(token)
            pre == ValidateFileUpload(NoFile)
            mu == Multer(file, n)
            s1 == <<"validateFileUpload:skipped">> \o mu.steps
            done(steps, status, stored, url) ==
                /\ up' = Uploaded(n, UploadPath, file, token, steps, status, url, <<>>)
                /\ uploadsDir' = uploadsDir \cup stored
        IN  /\ IF auth # 0 THEN done(<<>>, auth, {}, NoUrl)
               ELSE IF pre # 0 THEN done(<<"validateFileUpload:reject">>, pre, {}, NoUrl)
               ELSE IF mu.outcome = "error" THEN done(s1, 500, {}, NoUrl)
               ELSE IF mu.outcome = "nofile" THEN done(s1, 400, {}, NoUrl)
               ELSE IF "validateFile" \notin ValidatorsFile
               THEN done(s1 \o <<"validateFile:throws">>, 500, mu.stored, NoUrl)
               ELSE done(s1 \o <<"validateFile:accept">>, 200, mu.stored,
                         CHOOSE f \in mu.stored : TRUE)
            /\ UNCHANGED taskReports
    /\ UNCHANGED <<pipeVars, dlg, arrivals, g, sockVars, call>>

\* prisma.task.update({ where: { id }, data: { reportFile, ... } }): TRUE when
\* the row exists and is written
PrismaUpdate(exists) == exists

\* POST /api/tasks/:id/upload: authenticateToken, upload.single, handler
UploadTaskFile ==
    /\ up.n < MaxUploads
    /\ \E file \in UploadFiles, token \in UploadTokens, text \in BOOLEAN, exists \in BOOLEAN :
        LET n == up.n + 1
            auth == AuthStatus(token)
            mu == Multer(file, n)
            url == CHOOSE f \in mu.stored : TRUE
            name == DecodedName(file.originalname)
            done(steps, status, stored, reports, u, nm) ==
                /\ up' = Uploaded(n, TaskUploadPath, file, token, steps, status, u, nm)
                /\ uploadsDir' = uploadsDir \cup stored
                /\ taskReports' = taskReports \cup reports
        IN  IF auth # 0 THEN done(<<>>, auth, {}, {}, NoUrl, <<>>)
            ELSE IF mu.outcome = "error" THEN done(mu.steps, 500, {}, {}, NoUrl, <<>>)
            ELSE IF text
            THEN IF PrismaUpdate(exists)
                 THEN done(mu.steps \o <<"update">>, 200, mu.stored,
                           {[type |-> "text", name |-> <<>>, url |-> NoUrl]}, NoUrl, <<>>)
                 ELSE done(mu.steps \o <<"update:throws">>, 500, mu.stored, {}, NoUrl, <<>>)
            ELSE IF mu.outcome = "nofile" THEN done(mu.steps, 400, {}, {}, NoUrl, <<>>)
            ELSE IF PrismaUpdate(exists)
            THEN done(mu.steps \o <<"update">>, 200, mu.stored,
                      {[type |-> "file", name |-> name, url |-> url]}, url, name)
            ELSE done(mu.steps \o <<"update:throws">>, 500, mu.stored, {}, NoUrl, <<>>)
    /\ UNCHANGED <<pipeVars, dlg, arrivals, g, sockVars, call>>

NextUpload == UploadFile \/ UploadTaskFile

SpecUpload == Init /\ [][NextUpload]_vars

\* C13: after an upload request that was answered with an error, no file that
\* request wrote remains in the upload directory.
C13_RejectedLeavesNoFile ==
    (up.pc = "done" /\ up.status >= 400)
        => \A f \in uploadsDir : f.token # up.n

\* the position of a step in the steps of the request, 0 when it was not taken
StepIndex(step) ==
    IF \E i \in 1 .. Len(up.steps) : up.steps[i] = step
    THEN CHOOSE i \in 1 .. Len(up.steps) : up.steps[i] = step
    ELSE 0

\* C14: a file's URL is returned or attached to a task only if the metadata
\* validation accepted the file once before it was written and once after.
C14_ValidatedBeforeAndAfter ==
    (up.pc = "done" /\ up.url # NoUrl)
        => /\ StepIndex("write") > 0
           /\ StepIndex("validateFileUpload:accept") \in 1 .. StepIndex("write")
           /\ StepIndex("validateFile:accept") > StepIndex("write")

\* the request was let through to multer with a file part
FileReceived == up.pc = "done" /\ up.token = "active" /\ up.file.present

\* a file this request wrote is in the upload directory
StoredByRequest == \E f \in uploadsDir : f.token = up.n

\* C16: a size-valid, safely named candidate without a dangerous extension is
\* stored by the server upload path whenever its MIME type is in the allow-list
\* or its extension is in the allow-list.
C16_MimeOrExtensionSuffices ==
    (/\ FileReceived
     /\ up.file.size <= MaxFileSize
     /\ SafeName(up.file.originalname)
     /\ FileExtension(up.file.originalname) \notin DangerousExtensions
     /\ \/ up.file.mimetype \in AllowedMimeTypes
        \/ FileExtension(up.file.originalname) \in AllowedExtensions)
        => StoredByRequest

\* C17: an upload whose file name has a character outside the permitted set is
\* rejected on every upload route: it is answered with an error, not stored and
\* not attached to a task under any name.
C17_UnsafeNameRejected ==
    (FileReceived /\ ~SafeName(up.file.originalname))
        => /\ up.status >= 400
           /\ ~StoredByRequest
           /\ up.url = NoUrl
           /\ \A r \in taskReports : r.type = "file" => r.url.token # up.n

\* ------------------------------------------------------ upload validators
\* SpecValidate: validators.file.upload, the client's
\* detectSuspiciousFilePatterns and multer's two checks, each applied to one
\* candidate file.
SuspiciousExtensions == {
    <<".", "e", "x", "e">>, <<".", "b", "a", "t">>, <<".", "c", "m", "d">>, <<".", "s", "c", "r">>,
    <<".", "p", "i", "f">>, <<".", "c", "o", "m">>, <<".", "v", "b", "s">>, <<".", "j", "a", "r">>,
    <<".", "p", "h", "p">>, <<".", "a", "s", "p">>, <<".", "j", "s", "p">>}

\* the extensions detectSuspiciousFilePatterns has a pattern for
ClientSuspiciousExtensions == {
    <<".", "e", "x", "e">>, <<".", "b", "a", "t">>, <<".", "c", "m", "d">>, <<".", "s", "c", "r">>,
    <<".", "v", "b", "s">>, <<".", "j", "s">>, <<".", "p", "h", "p">>, <<".", "a", "s", "p">>,
    <<".", "j", "s", "p">>}

PayloadPhpJpg ==
    <<"p", "a", "y", "l", "o", "a", "d", ".", "p", "h", "p", ".", "j", "p", "g">>

\* the candidate names: x with each dangerous extension, with some of them in
\* upper case and with harmless ones, and payload.php.jpg, x, a$.pdf
ValidatedNames ==
    {<<"x">> \o e : e \in DangerousExtensions}
        \cup {<<"x", ".", "P", "H", "P">>, <<"x", ".", "J", "s">>, <<"x", ".", "E", "X", "E">>,
              <<"x", ".", "p", "d", "f">>, <<"x", ".", "j", "p", "g">>, <<"x", ".", "m", "d">>,
              <<"x">>, <<"a", "$", ".", "p", "d", "f">>, PayloadPhpJpg}

ValidatedMimes == {"image/jpeg", "text/plain", "application/x-msdownload", ""}

ValidatedFiles ==
    {File(n, t, s) : n \in ValidatedNames, t \in ValidatedMimes, s \in UploadSizes}

\* validators.file.upload: "valid" for { isValid: true }, else the error
ValidatorsFileUpload(file) ==
    LET fileExtension == FileExtension(file.originalname)
    IN  IF ~file.present THEN "noFile"
        ELSE IF file.size > MaxFileSize THEN "tooLarge"
        ELSE IF file.mimetype \notin AllowedMimeTypes /\ fileExtension \notin AllowedExtensions
        THEN "badType"
        ELSE IF file.originalname = <<>> \/ Len(file.originalname) > MaxNameLength
        THEN "badName"
        ELSE IF fileExtension \in SuspiciousExtensions THEN "suspiciousExtension"
        ELSE IF ~SafeName(file.originalname) THEN "badCharacters"
        ELSE "valid"

\* /\.ext$/gi
EndsWith(name, ext) ==
    Len(name) >= Len(ext) /\ SubSeq(name, Len(name) - Len(ext) + 1, Len(name)) = ext

\* detectSuspiciousFilePatterns (client): TRUE when a pattern matches
DetectSuspiciousFilePatterns(fileName) ==
    LET lower == ToLowerCase(fileName)
    IN  /\ fileName # <<>>
        /\ \/ HasSub(lower, <<".", ".", "/">>) \/ HasSub(lower, <<".", ".", "\\">>)
           \/ HasSub(lower, <<"<", "s", "c", "r", "i", "p", "t">>)
           \/ HasSub(lower, <<"j", "a", "v", "a", "s", "c", "r", "i", "p", "t", ":">>)
           \/ \E ext \in ClientSuspiciousExtensions : EndsWith(lower, ext)

\* the outcome of a call, as accepted or rejected
Called(fn, file, accepted) == [fn |-> fn, file |-> file, accepted |-> accepted]

CallValidatorsUpload ==
    /\ call.fn = "none"
    /\ \E file \in ValidatedFiles :
          call' = Called("validators.file.upload", file, ValidatorsFileUpload(file) = "valid")
    /\ UNCHANGED <<pipeVars, dlg, arrivals, g, sockVars, upVars>>

CallDetectFilePatterns ==
    /\ call.fn = "none"
    /\ \E file \in ValidatedFiles :
          call' = Called("detectSuspiciousFilePatterns", file,
                         ~DetectSuspiciousFilePatterns(file.originalname))
    /\ UNCHANGED <<pipeVars, dlg, arrivals, g, sockVars, upVars>>

CallMulter ==
    /\ call.fn = "none"
    /\ \E file \in ValidatedFiles :
          call' = Called("upload.single", file, Multer(file, 1).outcome = "stored")
    /\ UNCHANGED <<pipeVars, dlg, arrivals, g, sockVars, upVars>>

NextValidate == CallValidatorsUpload \/ CallDetectFilePatterns \/ CallMulter

SpecValidate == Init /\ [][NextValidate]_vars

\* C15: a candidate whose final extension, compared without regard to case, is
\* in the deny-list is rejected by validators.file.upload and flagged by the
\* client's file-name check, whatever its declared MIME type.
C15_DenyListWins ==
    (/\ call.fn \in {"validators.file.upload", "detectSuspiciousFilePatterns"}
     /\ FileExtension(call.file.originalname) \in DangerousExtensions)
        => ~call.accepted

\* C18: an upload named payload.php.jpg is rejected by validators.file.upload
\* and by multer's checks.
C18_DoubleExtensionRejected ==
    (call.fn \in {"validators.file.upload", "upload.single"}
        /\ call.file.originalname = PayloadPhpJpg)
        => ~call.accepted

\* --------------------------------------------------------- token verifiers
\* SpecVerify: cryptoUtils.verifyJWT and authenticateToken, each applied to one
\* token.  A token is described by what holds of it: its three-segment form,
\* the algorithm of its header, its signature under the server's secret, and
\* its nbf and exp claims read against the clock.
RawTokens ==
    [wellFormed : BOOLEAN, alg : {"HS256", "HS512"}, signed : BOOLEAN,
     active : BOOLEAN, expired : BOOLEAN, claims : Claims]

\* jwt.verify(token, secret, options): the name of the error, "none" when the
\* payload is returned.  The form, the algorithm and the signature are checked
\* before nbf, and nbf before exp.
JwtVerifyError(raw, algorithms) ==
    IF ~raw.wellFormed THEN "JsonWebTokenError"
    ELSE IF raw.alg \notin algorithms THEN "JsonWebTokenError"
    ELSE IF ~raw.signed THEN "JsonWebTokenError"
    ELSE IF ~raw.active THEN "NotBeforeError"
    ELSE IF raw.expired THEN "TokenExpiredError"
    ELSE "none"

\* the algorithms jwt.verify accepts for a secret when none are given
DefaultAlgorithms == {"HS256", "HS384", "HS512"}

\* verifyJWT with every error reported as a generic one
VerifyJWTOutcome_NoExpiredBranch(raw) ==
    LET name == JwtVerifyError(raw, {"HS256"})
    IN  CASE name = "none" -> "payload"
          [] name = "JsonWebTokenError" -> "invalid"
          [] OTHER -> "verifyError"

\* cryptoUtils.verifyJWT: "payload" when it returns, else the message it throws
VerifyJWTOutcome(raw) ==
    LET name == JwtVerifyError(raw, {"HS256"})
    IN  CASE name = "none" -> "payload"
          [] name = "TokenExpiredError" -> "expired"
          [] name = "JsonWebTokenError" -> "invalid"
          [] OTHER -> "verifyError"

\* the token as authenticateToken meets it: the first test it fails
Classify(raw) ==
    LET name == JwtVerifyError(raw, DefaultAlgorithms)
        kind == IF ~raw.wellFormed THEN "garbage"
                ELSE IF ~raw.signed THEN "badSignature"
                ELSE IF name = "NotBeforeError" THEN "notYetActive"
                ELSE IF name = "TokenExpiredError" THEN "expired"
                ELSE "active"
    IN  [kind |-> kind, claims |-> IF kind = "active" THEN raw.claims ELSE NoClaims]

\* the error message authenticateToken answers with, "none" when it calls next()
AuthMessage(token) ==
    IF token.kind = "missing" THEN "tokenMissing"
    ELSE IF token.kind = "garbage" THEN "badFormat"
    ELSE IF VerifyError(token) = "TokenExpiredError" THEN "expired"
    ELSE IF VerifyError(token) = "JsonWebTokenError" THEN "invalid"
    ELSE IF VerifyError(token) # "none" THEN "verifyError"
    ELSE IF ~HasRequiredClaims(token.claims) THEN "badPayload"
    ELSE "none"

Verified(fn, raw, outcome, status) ==
    [fn |-> fn, token |-> raw, outcome |-> outcome, status |-> status]

CallVerifyJWT ==
    /\ call.fn = "none"
    /\ \E raw \in RawTokens : call' = Verified("verifyJWT", raw, VerifyJWTOutcome(raw), 0)
    /\ UNCHANGED <<pipeVars, dlg, arrivals, g, sockVars, upVars>>

CallAuthenticateToken ==
    /\ call.fn = "none"
    /\ \E raw \in RawTokens :
          call' = Verified("authenticateToken", raw, AuthMessage(Classify(raw)),
                           AuthStatus(Classify(raw)))
    /\ UNCHANGED <<pipeVars, dlg, arrivals, g, sockVars, upVars>>

NextVerify == CallVerifyJWT \/ CallAuthenticateToken

SpecVerify == Init /\ [][NextVerify]_vars

TokenVerified == call.fn \in {"verifyJWT", "authenticateToken"}

\* the token has no defect other than its expiry, for the verifier called
OtherwiseSound ==
    /\ call.token.wellFormed /\ call.token.signed /\ call.token.active
    /\ call.fn = "verifyJWT" => call.token.alg = "HS256"

\* C19 as stated: a token whose expiry has passed fails with the Expired
\* outcome in verifyJWT and in authenticateToken, whatever else is wrong with it.
C19_ExpiredWhateverElse ==
    (TokenVerified /\ call.token.expired) => call.outcome = "expired"

\* C19 amended: a token whose expiry has passed and that is otherwise sound
\* fails with the Expired outcome in both verifiers, with status 401 from
\* authenticateToken; an expired token with another defect fails with the
\* reason of that defect.
C19_ExpiredWhenOtherwiseSound ==
    (TokenVerified /\ call.token.expired)
        => IF OtherwiseSound
           THEN /\ call.outcome = "expired"
                /\ call.fn = "authenticateToken" => call.status = 401
           ELSE call.outcome \in {"invalid", "badFormat", "verifyError"}

\* C19 witness: authenticateToken met an expired, otherwise sound token and
\* answered that it is expired.
C19_Witness ==
    /\ call.fn = "authenticateToken" /\ call.token.expired /\ OtherwiseSound
    /\ call.outcome = "expired" /\ call.status = 401

\* -------------------------------------------------------------- sanitizers
\* SpecSanitize: the server's securityConfig.sanitizeInput and the client's
\* sanitizeInput, each applied to an input and then to its own result.
MaxStrLen == 3

ClientMaxLength == 1000

SanitizedChars == {"a", "&", "<", "'", " "}

SanitizedStrings == SeqsUpTo(SanitizedChars, MaxStrLen)

\* sanitized.replace(/[<>"'&]/g, '')
RECURSIVE RemoveDangerous(_)
RemoveDangerous(str) ==
    IF str = <<>> THEN <<>>
    ELSE IF Head(str) \in {"<", ">", "\"", "'", "&"} THEN RemoveDangerous(Tail(str))
    ELSE <<Head(str)>> \o RemoveDangerous(Tail(str))

\* String.prototype.trim
RECURSIVE Trim(_)
Trim(str) ==
    IF str = <<>> THEN <<>>
    ELSE IF Head(str) = " " THEN Trim(Tail(str))
    ELSE IF str[Len(str)] = " " THEN Trim(SubSeq(str, 1, Len(str) - 1))
    ELSE str

\* replace(/\s+/g, ' ')
RECURSIVE CollapseSpaces(_)
CollapseSpaces(str) ==
    IF Len(str) < 2 THEN str
    ELSE IF str[1] = " " /\ str[2] = " " THEN CollapseSpaces(Tail(str))
    ELSE <<Head(str)>> \o CollapseSpaces(Tail(str))

\* sanitizeInput of the client (lib/security.ts)
ClientSanitizeInput(input) ==
    IF input = <<>> THEN <<>>
    ELSE CollapseSpaces(Trim(RemoveDangerous(
             SubSeq(input, 1, IF Len(input) < ClientMaxLength THEN Len(input)
                              ELSE ClientMaxLength))))

Sanitized(fn, input, once, twice) ==
    [fn |-> fn, input |-> input, once |-> once, twice |-> twice]

CallSanitizeString ==
    /\ call.fn = "none"
    /\ \E str \in SanitizedStrings :
          call' = Sanitized("securityConfig.sanitizeInput", str, SanitizeString(str),
                            SanitizeString(SanitizeString(str)))
    /\ UNCHANGED <<pipeVars, dlg, arrivals, g, sockVars, upVars>>

CallSanitizeObject ==
    /\ call.fn = "none"
    /\ \E obj \in Queries :
          call' = Sanitized("securityConfig.sanitizeInput", obj, SanitizeInput(obj),
                            SanitizeInput(SanitizeInput(obj)))
    /\ UNCHANGED <<pipeVars, dlg, arrivals, g, sockVars, upVars>>

CallClientSanitize ==
    /\ call.fn = "none"
    /\ \E str \in SanitizedStrings :
          call' = Sanitized("sanitizeInput", str, ClientSanitizeInput(str),
                            ClientSanitizeInput(ClientSanitizeInput(str)))
    /\ UNCHANGED <<pipeVars, dlg, arrivals, g, sockVars, upVars>>

NextSanitize == CallSanitizeString \/ CallSanitizeObject \/ CallClientSanitize

SpecSanitize == Init /\ [][NextSanitize]_vars

\* C20: sanitizing a sanitized value changes nothing, for every string and
\* every object of strings, on the server and on the client.
C20_SanitizeIdempotent ==
    call.fn \in {"securityConfig.sanitizeInput", "sanitizeInput"}
        => call.twice = call.once

\* ------------------------------------------------- brute-force table claims
\* the request of slot s as this step leaves it: answered, or on its way
After(s) == IF req'[s].pc = "idle" THEN last' ELSE req'[s]

\* C21: a key blocked with 5 recorded failures heals by itself: a check made
\* more than 15 minutes after the last recorded failure resets the count to 0
\* and lets the request pass checkBruteForce.
C21_LockoutSelfHeals ==
    [][\A s \in DOMAIN req :
         LET key == Key(req[s].ip, req[s].route)
             record == bruteForceProtection[key]
         IN  (/\ ChecksBruteForce(s)
              /\ Has(bruteForceProtection, key)
              /\ record.attempts >= MAX_ATTEMPTS
              /\ now - record.lastAttempt > BRUTE_FORCE_WINDOW)
             => (/\ bruteForceProtection'[key].attempts = 0
                 /\ After(s).by # "checkBruteForce"
                 /\ Ran(After(s), "authRateLimit"))]_vars

\* C21 witness: a login found 5 failures on record, more than a window old,
\* had them cleared and went on to the user lookup.
C21_Witness ==
    \E s \in DOMAIN req :
        /\ req[s].pc = "lookup" /\ req[s].cleared = MAX_ATTEMPTS
        /\ bruteForceProtection[LoginKey].attempts = 0
        /\ now - bruteForceProtection[LoginKey].lastAttempt > BRUTE_FORCE_WINDOW

\* C22: the window is anchored at its first failure: a check made more than
\* 15 minutes after the first failure of the running window resets the count
\* and admits the key, whenever the later failures of the window occurred.
C22_AnchoredAtFirstFailure ==
    [][\A s \in DOMAIN req :
         LET key == Key(req[s].ip, req[s].route)
         IN  (/\ ChecksBruteForce(s)
              /\ Has(bruteForceProtection, key)
              /\ bruteForceProtection[key].attempts > 0
              /\ now - windowStart[key] > BRUTE_FORCE_WINDOW)
             => (/\ bruteForceProtection'[key].attempts = 0
                 /\ After(s).by # "checkBruteForce")]_vars

\* C23: a run of the periodic sweep at time now leaves no record whose
\* lastAttempt is older than 2 x 15 minutes, and leaves every other record in
\* the table with its attempts and lastAttempt unchanged.
C23_SweepRemovesExactlyStale ==
    [][lastSweep' # lastSweep =>
         \A k \in Keys :
             /\ Has(bruteForceProtection', k) =>
                    now - bruteForceProtection'[k].lastAttempt <= 2 * BRUTE_FORCE_WINDOW
             /\ (/\ Has(bruteForceProtection, k)
                 /\ now - bruteForceProtection[k].lastAttempt <= 2 * BRUTE_FORCE_WINDOW)
                => bruteForceProtection'[k] = bruteForceProtection[k]]_vars

\* C23 witness: the sweep has just run and the login key, which had a failure
\* on record more than two windows old, is gone from the table.
C23_Witness ==
    /\ lastSweep = now /\ now > 2 * BRUTE_FORCE_WINDOW
    /\ windowStart[LoginKey] >= 0
    /\ now - windowStart[LoginKey] > 2 * BRUTE_FORCE_WINDOW
    /\ ~Has(bruteForceProtection, LoginKey)

\* slot s completes a failed credential check in this step
FailsCredentialCheck(s) ==
    /\ req[s].pc \in {"lookup", "verify"} /\ req'[s].pc = "idle"
    /\ last'.by = "handler" /\ last'.status >= 400

\* C24: no failure increment is lost: under every interleaving of concurrent
\* requests for one key and of the sweep timer, a failed credential check that
\* completes raises the key's recorded attempts by exactly one.
C24_NoIncrementLost ==
    [][\A s \in DOMAIN req :
         LET key == Key(req[s].ip, req[s].route)
         IN  FailsCredentialCheck(s) =>
                 /\ Has(bruteForceProtection', key)
                 /\ bruteForceProtection'[key].attempts =
                        (IF Has(bruteForceProtection, key)
                         THEN bruteForceProtection[key].attempts ELSE 0) + 1]_vars

\* C28: a request answered 429 by checkBruteForce leaves the record of its key
\* as it was, attempts and lastAttempt alike: requests made while blocked do
\* not extend the lockout.
C28_BlockedLeavesRecord ==
    [][\A s \in DOMAIN req :
         (/\ ChecksBruteForce(s)
          /\ req'[s].pc = "idle"
          /\ last'.status = 429 /\ last'.by = "checkBruteForce")
         => bruteForceProtection' = bruteForceProtection]_vars

\* C28 witness: a login was turned away by checkBruteForce in the last instant
\* of the lockout, a full window after the fifth failure, and the record still
\* carries the time of that failure.
C28_Witness ==
    /\ last.pc = "done" /\ last.route = LoginPath
    /\ last.status = 429 /\ last.by = "checkBruteForce"
    /\ bruteForceProtection[LoginKey].attempts >= MAX_ATTEMPTS
    /\ now - bruteForceProtection[LoginKey].lastAttempt = BRUTE_FORCE_WINDOW

\* C30: under every interleaving of concurrent logins of one address (the
\* check before, the increment after the user lookup and the password
\* verification) the attempts of a record never exceed MAX_ATTEMPTS.
C30_AttemptsNeverExceedMax ==
    \A k \in Keys :
        Has(bruteForceProtection, k) => bruteForceProtection[k].attempts <= MAX_ATTEMPTS

\* ------------------------------------------------------ socket gate claims
\* a handshake is made in this step
Handshakes == ws'.handshakes = ws.handshakes + 1

\* the io.use middleware called next() without an error for that handshake
\* (the connection handler may still turn the socket away)
GateAdmits == ws'.error \in {"none", "disconnected"}

\* C25: the io.use gate admits a handshake if and only if its token is one
\* verifyJWT accepts and the subject has fewer than 3 registered sockets; a
\* valid, unexpired token of a user with no open socket is admitted.
C25_AdmittedIffVerified ==
    [][Handshakes =>
         /\ GateAdmits => ws'.token = "active"
         /\ (/\ ws'.token = "active"
             /\ \A u \in WsUsers : Cardinality(userSockets[u]) < MAX_USER_CONNECTIONS)
            => GateAdmits]_vars

\* ========================================================== upload dialog
\* SpecDialog: the report upload dialog of the task list (TaskList renders
\* TaskFileUpload inside a Dialog while uploadModalData is set), one upload in
\* flight at a time.
DialogFileTypes == {
    "image/jpeg", "image/jpg", "image/png", "image/gif", "image/webp", "image/bmp",
    "image/tiff", "application/pdf", "application/msword",
    "application/vnd.openxmlformats-officedocument.wordprocessingml.document",
    "application/vnd.ms-excel",
    "application/vnd.openxmlformats-officedocument.spreadsheetml.sheet",
    "application/vnd.ms-powerpoint",
    "application/vnd.openxmlformats-officedocument.presentationml.presentation",
    "text/plain", "text/csv", "application/zip", "application/x-zip-compressed",
    "application/rar", "application/x-rar-compressed", "application/rtf",
    "application/json", "text/xml", "application/xml"}

DialogExtensions == {
    <<".", "j", "p", "g">>, <<".", "j", "p", "e", "g">>, <<".", "p", "n", "g">>, <<".", "g", "i", "f">>,
    <<".", "w", "e", "b", "p">>, <<".", "b", "m", "p">>, <<".", "t", "i", "f", "f">>,
    <<".", "p", "d", "f">>, <<".", "d", "o", "c">>, <<".", "d", "o", "c", "x">>, <<".", "x", "l", "s">>,
    <<".", "x", "l", "s", "x">>, <<".", "p", "p", "t">>, <<".", "p", "p", "t", "x">>,
    <<".", "t", "x", "t">>, <<".", "c", "s", "v">>, <<".", "r", "t", "f">>, <<".", "j", "s", "o", "n">>,
    <<".", "x", "m", "l">>, <<".", "z", "i", "p">>, <<".", "r", "a", "r">>}

ReportMaxLength == 5000

\* '.' + name.split('.').pop()?.toLowerCase()
DialogExtension(name) ==
    <<".">> \o ToLowerCase(SubSeq(name, LastIndexOf(name, ".") + 1, Len(name)))

\* the type test of handleFileChange and handleUpload
IsValidFile(file) ==
    IF file.mimetype = ""
    THEN DialogExtension(file.originalname) \in DialogExtensions
    ELSE \/ file.mimetype \in DialogFileTypes
         \/ DialogExtension(file.originalname) \in DialogExtensions

\* the files a user picks: a report, an oversized report, a program, and a
\* script declared as text
DialogFiles ==
    {File(<<"r", ".", "p", "d", "f">>, "application/pdf", 1024),
     File(<<"r", ".", "p", "d", "f">>, "application/pdf", MaxFileSize + 1),
     File(<<"x", ".", "e", "x", "e">>, "application/x-msdownload", 1024),
     File(<<"x", ".", "p", "h", "p">>, "text/plain", 1024)}

\* the texts a user types: letters, blanks and the word javascript: (one character
\* of the model)
DialogTexts == SeqsUpTo({"a", " ", "javascript:"}, 2)

\* detectSuspiciousPatterns on those texts: only /javascript:/ can match
DetectSuspiciousPatterns(input) == \E i \in 1 .. Len(input) : input[i] = "javascript:"

\* setUploadModalData(null): the Dialog and the TaskFileUpload in it are
\* unmounted, and the component's state goes with them
Unmount(d) ==
    [d EXCEPT !.open = FALSE, !.reportType = "text", !.selectedFile = NoFile,
              !.textReport = <<>>, !.uploading = FALSE]

DialogUnchanged ==
    UNCHANGED <<pipeVars, arrivals, g, sockVars, upVars, call>>

\* the upload button of a task: setUploadModalData({ taskId, isOpen: true })
OpenDialog ==
    /\ ~dlg.open
    /\ dlg' = [dlg EXCEPT !.open = TRUE]
    /\ DialogUnchanged

\* onOpenChange of the Dialog, and the cancel buttons (disabled while uploading)
Dismiss ==
    /\ dlg.open
    /\ dlg' = [Unmount(dlg) EXCEPT !.orphan = (dlg.pc = "awaiting")]
    /\ DialogUnchanged

HandleTabChange ==
    /\ dlg.open
    /\ \E value \in {"text", "file"} : dlg' = [dlg EXCEPT !.reportType = value]
    /\ DialogUnchanged

HandleTextChange ==
    /\ dlg.open
    /\ \E value \in DialogTexts :
        IF Len(value) > ReportMaxLength \/ DetectSuspiciousPatterns(value)
        THEN dlg' = [dlg EXCEPT !.toast = "error"]
        ELSE dlg' = [dlg EXCEPT !.textReport = value]
    /\ DialogUnchanged

HandleFileChange ==
    /\ dlg.open
    /\ \E file \in DialogFiles :
        IF \/ ~IsValidFile(file)
           \/ file.size > MaxFileSize
           \/ DetectSuspiciousFilePatterns(file.originalname)
        THEN dlg' = [dlg EXCEPT !.toast = "error"]
        ELSE dlg' = [dlg EXCEPT !.selectedFile = file]
    /\ DialogUnchanged

\* the upload button is enabled
CanUpload(d) ==
    /\ ~d.uploading
    /\ d.reportType = "file" => d.selectedFile # NoFile
    /\ d.reportType = "text" => Trim(d.textReport) # <<>>

\* handleUpload up to its await: the checks, then onUpload and, in
\* handleUploadReport, the progress toast
HandleUpload ==
    /\ dlg.open /\ dlg.pc = "idle" /\ CanUpload(dlg)
    /\ LET trimmedText == Trim(dlg.textReport)
           throws ==
               IF dlg.reportType = "file"
               THEN dlg.selectedFile.size > MaxFileSize \/ ~IsValidFile(dlg.selectedFile)
               ELSE Len(trimmedText) > ReportMaxLength \/ DetectSuspiciousPatterns(trimmedText)
       IN  IF throws
           THEN dlg' = [dlg EXCEPT !.uploading = FALSE, !.toast = "uploadError"]
           ELSE dlg' = [dlg EXCEPT !.uploading = TRUE, !.pc = "awaiting",
                                   !.sent = dlg.reportType, !.orphan = FALSE,
                                   !.result = "none", !.toast = "uploading"]
    /\ DialogUnchanged

\* uploadTaskFile settles. handleUploadReport toasts and, on a rejection,
\* rethrows; the onUpload wrapper catches what it rethrows; handleUpload goes on
\* after its await: the used input is reset and onCancel() is called
Settle ==
    /\ dlg.pc = "awaiting"
    /\ \E outcome \in {"resolved", "rejected"} :
        LET toasted == [dlg EXCEPT !.toast = IF outcome = "resolved" THEN "uploaded"
                                              ELSE "uploadError"]
            onUploadThrows == FALSE
            reset == IF dlg.orphan THEN toasted
                     ELSE IF dlg.sent = "file"
                          THEN [toasted EXCEPT !.uploading = FALSE, !.selectedFile = NoFile]
                          ELSE [toasted EXCEPT !.uploading = FALSE, !.textReport = <<>>]
            after == IF onUploadThrows
                     THEN [toasted EXCEPT !.uploading = FALSE, !.toast = "uploadError"]
                     ELSE Unmount(reset)
        IN  dlg' = [after EXCEPT !.pc = "idle", !.result = outcome, !.orphan = FALSE]
    /\ DialogUnchanged

NextDialog ==
    \/ OpenDialog
    \/ Dismiss
    \/ HandleTabChange
    \/ HandleTextChange
    \/ HandleFileChange
    \/ HandleUpload
    \/ Settle

SpecDialog == Init /\ [][NextDialog]_vars

\* the upload started from the open dialog is rejected in this step
UploadRejected ==
    /\ dlg.pc = "awaiting" /\ dlg.open /\ ~dlg.orphan
    /\ dlg'.pc = "idle" /\ dlg'.result = "rejected"

\* C26: when uploadTaskFile rejects, the dialog stays open and the selected file
\* and the typed text are kept; only a successful upload closes the dialog and
\* clears the input.
C26_FailureKeepsDialog ==
    [][UploadRejected =>
         /\ dlg'.open
         /\ dlg'.selectedFile = dlg.selectedFile
         /\ dlg'.textReport = dlg.textReport]_vars

\* ------------------------------------------------------------ guard chain
\* C27: every guard sends at most one response per request: once a status has
\* been sent, validateAndSanitize and the guards after it make no further
\* res.status(...).json(...) call on the request.
C27_AtMostOneResponse == Len(g.answers) <= 1

====
